---- MODULE Spec2Model ----
(***************************************************************************)
(* drop_bomb (src/src/lib.rs): DropBomb and DebugDropBomb, guards that     *)
(* panic in `drop` with a stored message unless defused.                   *)
(*                                                                         *)
(* The model is one thread that owns up to MaxBombs guards.  The build     *)
(* configuration (cfg(debug_assertions)) is fixed in the initial state.    *)
(* The thread constructs guards, calls their methods, may panic for a      *)
(* reason of its own, and drops guards in any order (scope exit, explicit  *)
(* drop, drop of an owning aggregate, unwinding).                          *)
(***************************************************************************)
EXTENDS Naturals, Sequences, FiniteSets

\* ------------------------------------------------------------------ bounds

\* Number of guard slots of the thread.
MaxBombs == 2

\* Number of consecutive `defuse` calls made on one guard.
MaxDefuses == 2

Slots == 1..MaxBombs

\* Messages guards are constructed with (the test's and the crate example's), and
\* the message of the caller's own panic (the test's).
Msgs ==
    {"Kaboom",
     "CheckedBufWriter must be explicitly closed to handle potential errors on flush"}
CallerMsgs == {"printf(\"sucks to be you\"); exit(666);"}

\* ------------------------------------------------------------------- state

VARIABLES
    debug_assertions,   \* cfg(debug_assertions) of the build
    bombs,              \* slot -> the guard value stored there, or NoBomb
    twin,               \* slot -> a DropBomb given the same message and the same calls
    life,               \* slot -> "unborn" | "live" | "dropped"
    thread,             \* panicking status of the thread and the propagating payload
    hist,               \* slot -> what was called on the guard since construction
    last,               \* the is_defused call just made and what it returned, or NoCall
    dropLog             \* the destructions so far, in order

vars == <<debug_assertions, bombs, twin, life, thread, hist, last, dropLog>>

NoBomb == [tag |-> "none"]
NoPayload == [msg |-> "", by |-> 0]

\* ------------------------------------------------------- the thread's panics

\* std::thread::panicking()
panicking(thr) == thr.panicking

\* panic!("{}", msg).  Formatting a str with "{}" yields the str itself.  A panic
\* raised while the thread is already panicking aborts the process.
Panic(thr, msg, by) ==
    IF thr.panicking
    THEN [thr EXCEPT !.aborted = TRUE, !.panics = @ + 1]
    ELSE [thr EXCEPT !.panicking = TRUE,
                     !.payload = [msg |-> msg, by |-> by],
                     !.panics = @ + 1]

\* ---------------------------------------------------------------- RealBomb

\* Faulty variant: a guard constructed already defused.
RealBomb_new_defused(msg) == [tag |-> "RealBomb", msg |-> msg, defused |-> TRUE]

\* msg.into() of a Cow<'static, str> into itself keeps the text.
RealBomb_new(msg) == [tag |-> "RealBomb", msg |-> msg, defused |-> FALSE]

\* Faulty variant: a setter that can defuse but never re-arm.
RealBomb_set_defused_sticky(self, defused) ==
    [self EXCEPT !.defused = @ \/ defused]

RealBomb_set_defused(self, defused) == [self EXCEPT !.defused = defused]

RealBomb_is_defused(self) == self.defused

\* Faulty variant: the destructor panics without the guard's message.
RealBomb_drop_no_msg(self, thr, by) ==
    IF ~self.defused /\ ~panicking(thr)
    THEN Panic(thr, "explicit panic", by)
    ELSE thr

\* Faulty variant: the destructor does not ask whether the thread is panicking.
RealBomb_drop_unchecked(self, thr, by) ==
    IF ~self.defused
    THEN Panic(thr, self.msg, by)
    ELSE thr

\* Faulty variant: the destructor tests `||` where the code tests `&&`.
RealBomb_drop_either(self, thr, by) ==
    IF ~self.defused \/ ~panicking(thr)
    THEN Panic(thr, self.msg, by)
    ELSE thr

\* Faulty variant: the destructor panics only when the thread is already panicking.
RealBomb_drop_inverted(self, thr, by) ==
    IF ~self.defused /\ panicking(thr)
    THEN Panic(thr, self.msg, by)
    ELSE thr

\* impl Drop for RealBomb: the thread after the destructor ran.
RealBomb_drop(self, thr, by) ==
    IF ~self.defused /\ ~panicking(thr)
    THEN Panic(thr, self.msg, by)
    ELSE thr

\* ---------------------------------------------------------------- FakeBomb

FakeBomb_new(msg) == [tag |-> "FakeBomb"]

FakeBomb_set_defused(self, defused) == self

\* Faulty variant: the stand-in reports itself armed.
FakeBomb_is_defused_armed(self) == FALSE

FakeBomb_is_defused(self) == TRUE

\* Faulty variant: the stand-in panics when dropped.
FakeBomb_drop_panics(self, thr, by) ==
    IF ~panicking(thr) THEN Panic(thr, "", by) ELSE thr

FakeBomb_drop(self, thr, by) == thr

\* --------------------------------------------------------------- DebugBomb
\* type DebugBomb = RealBomb under cfg(debug_assertions), FakeBomb otherwise.

DebugBomb_new(msg) ==
    IF debug_assertions THEN RealBomb_new(msg) ELSE FakeBomb_new(msg)

DebugBomb_set_defused(self, defused) ==
    IF debug_assertions THEN RealBomb_set_defused(self, defused)
                        ELSE FakeBomb_set_defused(self, defused)

DebugBomb_is_defused(self) ==
    IF debug_assertions THEN RealBomb_is_defused(self)
                        ELSE FakeBomb_is_defused(self)

\* Faulty variant: the destructor of the stand-in is chosen in every build.
DebugBomb_drop_always_fake(self, thr, by) == FakeBomb_drop(self, thr, by)

DebugBomb_drop(self, thr, by) ==
    IF debug_assertions THEN RealBomb_drop(self, thr, by)
                        ELSE FakeBomb_drop(self, thr, by)

\* ---------------------------------------------------------------- DropBomb

DropBomb_new(msg) == [ty |-> "DropBomb", inner |-> RealBomb_new(msg)]

DropBomb_set_defused(self, defused) ==
    [self EXCEPT !.inner = RealBomb_set_defused(self.inner, defused)]

\* Faulty variant: defuse arms the guard.
DropBomb_defuse_arms(self) == DropBomb_set_defused(self, FALSE)

DropBomb_defuse(self) == DropBomb_set_defused(self, TRUE)

DropBomb_is_defused(self) == RealBomb_is_defused(self.inner)

\* ----------------------------------------------------------- DebugDropBomb

DebugDropBomb_new(msg) == [ty |-> "DebugDropBomb", inner |-> DebugBomb_new(msg)]

DebugDropBomb_set_defused(self, defused) ==
    [self EXCEPT !.inner = DebugBomb_set_defused(self.inner, defused)]

DebugDropBomb_defuse(self) == DebugDropBomb_set_defused(self, TRUE)

DebugDropBomb_is_defused(self) == DebugBomb_is_defused(self.inner)

\* Drop glue: dropping the wrapper drops its only field.
drop_in_place(self, thr, by) ==
    IF self.ty = "DropBomb" THEN RealBomb_drop(self.inner, thr, by)
                            ELSE DebugBomb_drop(self.inner, thr, by)

\* ------------------------------------------------------------------ history

\* What was called on a guard since its construction: the constructor's message,
\* the argument of the most recent set ("none" before the first), how many
\* defuse() calls were made in a row since the last set_defused, and whether the
\* guard is re-armed (set to false while the most recent set before was true).
NewHist(msg) == [msg |-> msg, lastSet |-> "none", defuses |-> 0, rearmed |-> FALSE]

NoHist == NewHist("")

\* The history of a guard after set_defused(defused) was called on it.
AfterSet(h, defused) ==
    [h EXCEPT !.lastSet = IF defused THEN "true" ELSE "false",
              !.defuses = 0,
              !.rearmed = ~defused /\ (h.rearmed \/ h.lastSet = "true")]

\* The history of a guard after defuse() was called on it.
AfterDefuse(h) ==
    [h EXCEPT !.lastSet = "true", !.defuses = @ + 1, !.rearmed = FALSE]

\* The history of a guard as the drop log keeps it.
AtDrop(h) ==
    [msg |-> h.msg, lastSet |-> h.lastSet,
     viaDefuse |-> h.defuses > 0, rearmed |-> h.rearmed]

NoCall == [b |-> 0, ret |-> FALSE, ref |-> FALSE]

\* -------------------------------------------------------------------- Init

Init ==
    /\ debug_assertions \in BOOLEAN
    /\ bombs = [b \in Slots |-> NoBomb]
    /\ twin = [b \in Slots |-> NoBomb]
    /\ life = [b \in Slots |-> "unborn"]
    /\ thread = [panicking |-> FALSE, payload |-> NoPayload,
                 panics |-> 0, aborted |-> FALSE]
    /\ hist = [b \in Slots |-> NoHist]
    /\ last = NoCall
    /\ dropLog = <<>>

\* Code runs on the thread until the process aborts.
Running == ~thread.aborted

\* Slots are filled in order.
Fresh(b) ==
    /\ life[b] = "unborn"
    /\ \A c \in Slots : c < b => life[c] # "unborn"

Live(b, ty) == life[b] = "live" /\ bombs[b].ty = ty

\* ----------------------------------------------------------------- actions

\* let b = DropBomb::new(msg)
NewDropBomb ==
    \E b \in Slots, msg \in Msgs :
        /\ Running /\ Fresh(b)
        /\ bombs' = [bombs EXCEPT ![b] = DropBomb_new(msg)]
        /\ twin' = [twin EXCEPT ![b] = DropBomb_new(msg)]
        /\ life' = [life EXCEPT ![b] = "live"]
        /\ hist' = [hist EXCEPT ![b] = NewHist(msg)]
        /\ last' = NoCall
        /\ UNCHANGED <<debug_assertions, thread, dropLog>>

\* let b = DebugDropBomb::new(msg)
NewDebugDropBomb ==
    \E b \in Slots, msg \in Msgs :
        /\ Running /\ Fresh(b)
        /\ bombs' = [bombs EXCEPT ![b] = DebugDropBomb_new(msg)]
        /\ twin' = [twin EXCEPT ![b] = DropBomb_new(msg)]
        /\ life' = [life EXCEPT ![b] = "live"]
        /\ hist' = [hist EXCEPT ![b] = NewHist(msg)]
        /\ last' = NoCall
        /\ UNCHANGED <<debug_assertions, thread, dropLog>>

\* b.defuse() on a DropBomb
DefuseDropBomb ==
    \E b \in Slots :
        /\ Running /\ Live(b, "DropBomb")
        /\ hist[b].defuses < MaxDefuses
        /\ bombs' = [bombs EXCEPT ![b] = DropBomb_defuse(@)]
        /\ twin' = [twin EXCEPT ![b] = DropBomb_defuse(@)]
        /\ hist' = [hist EXCEPT ![b] = AfterDefuse(@)]
        /\ last' = NoCall
        /\ UNCHANGED <<debug_assertions, life, thread, dropLog>>

\* b.defuse() on a DebugDropBomb
DefuseDebugDropBomb ==
    \E b \in Slots :
        /\ Running /\ Live(b, "DebugDropBomb")
        /\ hist[b].defuses < MaxDefuses
        /\ bombs' = [bombs EXCEPT ![b] = DebugDropBomb_defuse(@)]
        /\ twin' = [twin EXCEPT ![b] = DropBomb_defuse(@)]
        /\ hist' = [hist EXCEPT ![b] = AfterDefuse(@)]
        /\ last' = NoCall
        /\ UNCHANGED <<debug_assertions, life, thread, dropLog>>

\* b.set_defused(defused) on a DropBomb
SetDefusedDropBomb ==
    \E b \in Slots, defused \in BOOLEAN :
        /\ Running /\ Live(b, "DropBomb")
        /\ bombs' = [bombs EXCEPT ![b] = DropBomb_set_defused(@, defused)]
        /\ twin' = [twin EXCEPT ![b] = DropBomb_set_defused(@, defused)]
        /\ hist' = [hist EXCEPT ![b] = AfterSet(@, defused)]
        /\ last' = NoCall
        /\ UNCHANGED <<debug_assertions, life, thread, dropLog>>

\* b.set_defused(defused) on a DebugDropBomb
SetDefusedDebugDropBomb ==
    \E b \in Slots, defused \in BOOLEAN :
        /\ Running /\ Live(b, "DebugDropBomb")
        /\ bombs' = [bombs EXCEPT ![b] = DebugDropBomb_set_defused(@, defused)]
        /\ twin' = [twin EXCEPT ![b] = DropBomb_set_defused(@, defused)]
        /\ hist' = [hist EXCEPT ![b] = AfterSet(@, defused)]
        /\ last' = NoCall
        /\ UNCHANGED <<debug_assertions, life, thread, dropLog>>

\* b.is_defused() on a DropBomb
IsDefusedDropBomb ==
    \E b \in Slots :
        /\ Running /\ Live(b, "DropBomb")
        /\ last' = [b |-> b, ret |-> DropBomb_is_defused(bombs[b]),
                    ref |-> DropBomb_is_defused(twin[b])]
        /\ UNCHANGED <<debug_assertions, bombs, twin, life, thread, hist, dropLog>>

\* b.is_defused() on a DebugDropBomb
IsDefusedDebugDropBomb ==
    \E b \in Slots :
        /\ Running /\ Live(b, "DebugDropBomb")
        /\ last' = [b |-> b, ret |-> DebugDropBomb_is_defused(bombs[b]),
                    ref |-> DropBomb_is_defused(twin[b])]
        /\ UNCHANGED <<debug_assertions, bombs, twin, life, thread, hist, dropLog>>

\* The caller's own code panics (panic!(msg) outside any guard).  A panic of the
\* caller's during unwinding would abort the process whatever the guards do.
CallerPanic ==
    \E msg \in CallerMsgs :
        /\ Running /\ ~panicking(thread)
        /\ thread' = Panic(thread, msg, 0)
        /\ last' = NoCall
        /\ UNCHANGED <<debug_assertions, bombs, twin, life, hist, dropLog>>

\* The guard in slot b goes out of scope (end of scope, explicit drop, drop of the
\* owning aggregate, unwinding): its destructor runs and its storage is reclaimed.
Drop ==
    \E b \in Slots :
        /\ Running /\ life[b] = "live"
        /\ thread' = drop_in_place(bombs[b], thread, b)
        /\ life' = [life EXCEPT ![b] = "dropped"]
        /\ dropLog' = Append(dropLog,
               [b |-> b, self |-> bombs[b], hist |-> AtDrop(hist[b]),
                before |-> thread, after |-> thread',
                ref |-> drop_in_place(twin[b], thread, b)])
        /\ bombs' = [bombs EXCEPT ![b] = NoBomb]
        /\ twin' = [twin EXCEPT ![b] = NoBomb]
        /\ hist' = [hist EXCEPT ![b] = NoHist]
        /\ last' = NoCall
        /\ UNCHANGED debug_assertions

Next ==
    \/ NewDropBomb
    \/ NewDebugDropBomb
    \/ DefuseDropBomb
    \/ DefuseDebugDropBomb
    \/ SetDefusedDropBomb
    \/ SetDefusedDebugDropBomb
    \/ IsDefusedDropBomb
    \/ IsDefusedDebugDropBomb
    \/ CallerPanic
    \/ Drop

Spec == Init /\ [][Next]_vars

\* ================================================================ properties

\* The destructions recorded so far.
Log == {dropLog[i] : i \in DOMAIN dropLog}

\* The destruction e raised a panic.
Raised(e) == e.after.panics > e.before.panics

\* The destruction e left the thread as it was.
Silent(e) == e.after = e.before

\* The guard value holds a RealBomb (DropBomb, or DebugDropBomb in a debug build).
IsReal(self) == self.inner.tag = "RealBomb"

\* The guard value is a RealBomb whose flag is false.
Armed(self) == IsReal(self) /\ ~self.inner.defused

\* C1: a DropBomb constructed with message M and destroyed while its flag is false
\* and the thread is not panicking raises a panic whose text is exactly M.
C1_ArmedDropPanicsWithMessage ==
    \A e \in Log :
        (e.self.ty = "DropBomb" /\ ~e.self.inner.defused /\ ~e.before.panicking)
        => /\ Raised(e)
           /\ ~e.after.aborted
           /\ e.after.panicking
           /\ e.after.payload = [msg |-> e.hist.msg, by |-> e.b]

C1_Witness ==
    \E e \in Log :
        /\ e.self.ty = "DropBomb" /\ ~e.self.inner.defused /\ ~e.before.panicking
        /\ e.hist.msg = "CheckedBufWriter must be explicitly closed to handle potential errors on flush"
        /\ e.hist.lastSet = "none"

\* C2: a DropBomb that was constructed, defused with defuse() and then destroyed
\* raises no panic and leaves the thread as it was, whether or not the thread is
\* panicking at the destruction.
C2_DefusedDropIsSilent ==
    \A e \in Log :
        (e.self.ty = "DropBomb" /\ e.hist.viaDefuse)
        => ~Raised(e) /\ Silent(e)

C2_Witness ==
    /\ \E e \in Log : e.self.ty = "DropBomb" /\ e.hist.viaDefuse /\ e.before.panicking
    /\ \E e \in Log : e.self.ty = "DropBomb" /\ e.hist.viaDefuse /\ ~e.before.panicking

\* C3: a still-armed guard destroyed while the thread is already panicking raises
\* no second panic, and the fault that propagates stays the earlier one.
C3_NoDoublePanic ==
    \A e \in Log :
        (Armed(e.self) /\ e.before.panicking)
        => /\ ~Raised(e)
           /\ Silent(e)
           /\ ~thread.aborted
           /\ thread.payload = e.before.payload
           /\ thread.payload.by # e.b

C3_Witness ==
    \E e \in Log :
        /\ e.self.ty = "DropBomb" /\ Armed(e.self) /\ e.before.panicking
        /\ e.before.payload = [msg |-> "printf(\"sucks to be you\"); exit(666);", by |-> 0]

DefusedOnce(b) ==
    IF bombs[b].ty = "DropBomb"
    THEN DropBomb_defuse(DropBomb_new(hist[b].msg))
    ELSE DebugDropBomb_defuse(DebugDropBomb_new(hist[b].msg))

\* C5: after one or more defuse() calls in a row the guard is in the state a single
\* call leaves it in and is_defused returns true; set_defused(false) after a
\* defuse re-arms the guard, and is_defused returns false again.
C5_DefuseIdempotentAndRearm ==
    \A b \in Slots :
        (life[b] = "live" /\ IsReal(bombs[b]))
        => /\ hist[b].defuses >= 1
              => /\ bombs[b] = DefusedOnce(b)
                 /\ (last.b = b => last.ret = TRUE)
           /\ hist[b].rearmed
              => /\ ~bombs[b].inner.defused
                 /\ (last.b = b => last.ret = FALSE)

C5_Witness ==
    /\ \E b \in Slots :
          life[b] = "live" /\ IsReal(bombs[b]) /\ hist[b].defuses >= 2
    /\ last.b # 0 /\ IsReal(bombs[last.b]) /\ hist[last.b].rearmed

\* C6: in a release build is_defused of a DebugDropBomb returns true whatever was
\* called on it, and the destruction of a DebugDropBomb raises no panic.
C6_ReleaseDebugBombInert ==
    ~debug_assertions
    => /\ (last.b # 0 /\ bombs[last.b].ty = "DebugDropBomb") => last.ret = TRUE
       /\ \A e \in Log :
             e.self.ty = "DebugDropBomb" => ~Raised(e) /\ Silent(e)

C6_Witness ==
    /\ ~debug_assertions
    /\ last.b # 0 /\ bombs[last.b].ty = "DebugDropBomb"
    /\ hist[last.b].lastSet = "false"
    /\ \E e \in Log :
          /\ e.self.ty = "DebugDropBomb" /\ ~e.before.panicking
          /\ e.hist.lastSet \in {"none", "false"}

CallerPanics ==
    IF thread.panicking /\ thread.payload.by = 0 THEN 1 ELSE 0

\* C9: a guard is destroyed at most once, every panic of the thread other than the
\* caller's own is raised by a destruction, and the destruction of a guard raises a
\* panic if and only if its flag is false and the thread is not panicking then,
\* whatever was called on it before.
C9_PanicOnlyAtDropIffArmed ==
    /\ \A i, j \in DOMAIN dropLog : dropLog[i].b = dropLog[j].b => i = j
    /\ thread.panics = CallerPanics + Cardinality({i \in DOMAIN dropLog : Raised(dropLog[i])})
    /\ \A e \in Log :
          IsReal(e.self)
          => (Raised(e) <=> (~e.self.inner.defused /\ ~e.before.panicking))

C9_Witness ==
    /\ \E e \in Log : IsReal(e.self) /\ e.hist.rearmed /\ Raised(e)
    /\ \E e \in Log : IsReal(e.self) /\ e.hist.lastSet = "true" /\ ~Raised(e)

\* The positions of the drop log at which an armed guard was destroyed.
ArmedDrops == {i \in DOMAIN dropLog : Armed(dropLog[i].self)}

\* C10: when armed guards are destroyed one after another and no fault propagates
\* before the first, exactly one panic is raised: the first armed guard panics
\* with its own message, the later ones are silent, and the propagating fault
\* carries the first one's message.
C10_FirstArmedDropWins ==
    \A i \in ArmedDrops :
        ((\A j \in ArmedDrops : i <= j) /\ ~dropLog[i].before.panicking)
        => /\ Raised(dropLog[i])
           /\ thread.panics = 1
           /\ ~thread.aborted
           /\ thread.payload = [msg |-> dropLog[i].hist.msg, by |-> dropLog[i].b]
           /\ \A j \in ArmedDrops : j > i => ~Raised(dropLog[j]) /\ Silent(dropLog[j])

C10_Witness ==
    /\ Cardinality(ArmedDrops) >= 2
    /\ \E i \in ArmedDrops :
          /\ \A j \in ArmedDrops : i <= j
          /\ ~dropLog[i].before.panicking
    /\ \E i, j \in ArmedDrops : dropLog[i].hist.msg # dropLog[j].hist.msg

====
